---- MODULE Spec2Model ----
(***************************************************************************)
(* Netlist-to-dataset pipeline of GeoCHiP/vkr:                             *)
(*   verilog_parser.parser -> grapher.grapher -> CombcircDataset           *)
(*   (read_graphs, write_dataset) driven by main().                        *)
(*                                                                         *)
(* Python strings are modelled as sequences of one-character strings, so   *)
(* that split / strip / lstrip / startswith / re.sub are computed as the   *)
(* code computes them.                                                     *)
(***************************************************************************)
EXTENDS Integers, Sequences, FiniteSets, TLC

(***************************************************************************)
(* Bounds of the model.                                                    *)
(***************************************************************************)
\* number of *.v files glob finds (at most)
MaxGraphs == 2
\* total number of text lines read over the whole run (at most)
MaxLines == 3

(***************************************************************************)
(* Python string and list primitives.                                      *)
(***************************************************************************)
Digits == {"0", "1", "2", "3", "4", "5", "6", "7", "8", "9"}

\* characters removed by str.lstrip() with no argument
Whitespace == {" ", "\t", "\n", "\r", "\f"}

\* x in lst
InSeq(x, lst) == \E k \in 1..Len(lst) : lst[k] = x

\* set(lst)
ToSet(lst) == {lst[k] : k \in 1..Len(lst)}

\* s[a-1:b] with 1-based inclusive bounds; empty when a > b
Slice(s, a, b) == IF a > b THEN <<>> ELSE SubSeq(s, a, b)

\* s[:-1]
DropLast(s) == Slice(s, 1, Len(s) - 1)

\* s[1:]
Tail1(s) == Slice(s, 2, Len(s))

\* s.startswith(p)
StartsWith(s, p) == Len(p) <= Len(s) /\ SubSeq(s, 1, Len(p)) = p

\* sub in s
Contains(s, sub) ==
    \E k \in 0..(Len(s) - Len(sub)) : Slice(s, k + 1, k + Len(sub)) = sub

\* s.lstrip(chars): drop the longest prefix made of characters of chars
LStrip(s, chars) ==
    LET stops == {k \in 1..Len(s) : s[k] \notin chars}
    IN  IF stops = {} THEN <<>>
        ELSE Slice(s, CHOOSE k \in stops : \A j \in stops : k <= j, Len(s))

\* s.rstrip(chars)
RStrip(s, chars) ==
    LET stops == {k \in 1..Len(s) : s[k] \notin chars}
    IN  IF stops = {} THEN <<>>
        ELSE Slice(s, 1, CHOOSE k \in stops : \A j \in stops : k >= j)

\* s.strip(chars)
Strip(s, chars) == RStrip(LStrip(s, chars), chars)

\* s.split(sep) for a one-character sep: always at least one field
RECURSIVE Split(_, _)
Split(s, sep) ==
    LET hits == {k \in 1..Len(s) : s[k] = sep}
    IN  IF hits = {} THEN <<s>>
        ELSE LET k == CHOOSE h \in hits : \A j \in hits : h <= j
             IN  <<Slice(s, 1, k - 1)>> \o Split(Slice(s, k + 1, Len(s)), sep)

\* s.split(sep=sep, maxsplit=1)
Split1(s, sep) ==
    LET hits == {k \in 1..Len(s) : s[k] = sep}
    IN  IF hits = {} THEN <<s>>
        ELSE LET k == CHOOSE h \in hits : \A j \in hits : h <= j
             IN  <<Slice(s, 1, k - 1), Slice(s, k + 1, Len(s))>>

\* ''.join(parts)
RECURSIVE Join(_)
Join(parts) == IF parts = <<>> THEN <<>> ELSE Head(parts) \o Join(Tail(parts))

\* [f(x) for x in lst]
MapStrip(lst, chars) == [k \in 1..Len(lst) |-> Strip(lst[k], chars)]

DigitChar(d) ==
    CASE d = 0 -> "0" [] d = 1 -> "1" [] d = 2 -> "2" [] d = 3 -> "3"
      [] d = 4 -> "4" [] d = 5 -> "5" [] d = 6 -> "6" [] d = 7 -> "7"
      [] d = 8 -> "8" [] d = 9 -> "9"

\* str(n) for n >= 0
RECURSIVE Str(_)
Str(n) == IF n < 10 THEN <<DigitChar(n)>> ELSE Str(n \div 10) \o <<DigitChar(n % 10)>>

(***************************************************************************)
(* The text the parser can read: each line of a circuit file is one of     *)
(* these (every line ends with its newline, as readline() returns it).     *)
(***************************************************************************)
\* 'input x0, x1,\n'    (port-list style: the line ends with a comma)
L_input_x == <<"i", "n", "p", "u", "t", " ", "x", "0", ",", " ", "x", "1", ",", "\n">>
\* 'input a;\n'
L_input_a == <<"i", "n", "p", "u", "t", " ", "a", ";", "\n">>
\* 'output f;\n'
L_output_f == <<"o", "u", "t", "p", "u", "t", " ", "f", ";", "\n">>
\* 'not g0(f, a);\n'
L_not_g0 == <<"n", "o", "t", " ", "g", "0", "(", "f", ",", " ", "a", ")", ";", "\n">>
\* 'and (f, x0, w);\n'
L_and == <<"a", "n", "d", " ", "(", "f", ",", " ", "x", "0", ",", " ", "w", ")", ";", "\n">>
\* 'assign w = x0;\n'
L_assign == <<"a", "s", "s", "i", "g", "n", " ", "w", " ", "=", " ", "x", "0", ";", "\n">>
\* 'assign w;\n'        (an assign with no '=')
L_assign_noeq == <<"a", "s", "s", "i", "g", "n", " ", "w", ";", "\n">>
\* 'nor w;\n'           (a gate instantiation with no parentheses)
L_nor_noparen == <<"n", "o", "r", " ", "w", ";", "\n">>
\* '// c\n'
L_comment == <<"/", "/", " ", "c", "\n">>
\* 'endmodule\n'
L_endmodule == <<"e", "n", "d", "m", "o", "d", "u", "l", "e", "\n">>

\* 'and1 (w);\n'       (the type token ends with a digit)
L_and1 == <<"a", "n", "d", "1", " ", "(", "w", ")", ";", "\n">>
\* 'and 0(w);\n'       (the instance name is a digit)
L_and_0 == <<"a", "n", "d", " ", "0", "(", "w", ")", ";", "\n">>
\* 'or (w, w, w);\n'   (a gate that reads its own output, on two operands)
L_or_www == <<"o", "r", " ", "(", "w", ",", " ", "w", ",", " ", "w", ")", ";", "\n">>

Lines ==
    {L_input_x, L_input_a, L_output_f, L_not_g0, L_and, L_assign,
     L_assign_noeq, L_nor_noparen, L_comment, L_endmodule,
     L_and1, L_and_0, L_or_www}

\* the values a sidecar .json can hold under the key 'reliability'
Reliabilities == {97}

(***************************************************************************)
(* verilog_parser.parser                                                   *)
(***************************************************************************)
GATES ==
    << <<"n", "o", "t">>, <<"a", "n", "d">>, <<"o", "r">>, <<"n", "a", "n", "d">>,
       <<"n", "o", "r">>, <<"x", "o", "r">>, <<"x", "n", "o", "r">>,
       <<"b", "u", "f">>, <<"a", "s", "s", "i", "g", "n">> >>

\* the driver of a net that was read before anything drove it: ' '
SENTINEL == <<" ">>

\* the characters of ',;\n '
PortStripChars == {",", ";", "\n", " "}

\* the characters of ',;\n ()'
GateStripChars == {",", ";", "\n", " ", "(", ")"}

\* index of the first record of wires whose name is name, 0 when there is none
\* (the for loop with break over wires)
FindWire(wires_, name) ==
    LET hits == {k \in 1..Len(wires_) : wires_[k][1] = name}
    IN  IF hits = {} THEN 0 ELSE CHOOSE k \in hits : \A j \in hits : k <= j

\* ResolveOutput that starts the consumers afresh when it overwrites a driver
ResolveOutput_ClearsConsumers(wires_, outs, _output, gate) ==
    IF InSeq(_output, outs)
    THEN Append(wires_, <<_output, gate, <<_output>>>>)
    ELSE LET k == FindWire(wires_, _output)
         IN  IF k # 0
             THEN [wires_ EXCEPT ![k] = <<@[1], gate, <<>>>>]
             ELSE Append(wires_, <<_output, gate, <<>>>>)

\* the output net of a statement: a declared output port always gets a new
\* record [_output, gate, [_output]]; any other net has the driver of its first
\* record overwritten, or a new record [_output, gate, []]
ResolveOutput(wires_, outs, _output, gate) ==
    IF InSeq(_output, outs)
    THEN Append(wires_, <<_output, gate, <<_output>>>>)
    ELSE LET k == FindWire(wires_, _output)
         IN  IF k # 0
             THEN [wires_ EXCEPT ![k] = <<@[1], gate, @[3]>>]
             ELSE Append(wires_, <<_output, gate, <<>>>>)

\* one operand i of a statement: gate is appended to the consumers of the first
\* record named i; with no such record a new one is appended, driven by i itself
\* when i is in input_nodes and by the sentinel otherwise
ResolveInput(wires_, ins, i, gate) ==
    LET k == FindWire(wires_, i)
    IN  IF InSeq(i, ins)
        THEN IF k # 0
             THEN [wires_ EXCEPT ![k] = <<@[1], @[2], Append(@[3], gate)>>]
             ELSE Append(wires_, <<i, i, <<gate>>>>)
        ELSE IF k # 0
             THEN [wires_ EXCEPT ![k] = <<@[1], @[2], Append(@[3], gate)>>]
             ELSE Append(wires_, <<i, SENTINEL, <<gate>>>>)

\* for i in _input: ...
RECURSIVE ResolveInputs(_, _, _, _)
ResolveInputs(wires_, ins, _input, gate) ==
    IF _input = <<>> THEN wires_
    ELSE ResolveInputs(ResolveInput(wires_, ins, Head(_input), gate),
                       ins, Tail(_input), gate)

\* elif line.startswith('input'): the names of the line, the last
\* comma-separated field dropped
ParseInputLine(line) ==
    MapStrip(DropLast(Split(LStrip(line, {"i", "n", "p", "u", "t"}), ",")),
             PortStripChars)

\* elif line.startswith('output'): the names of the line
ParseOutputLine(line) ==
    MapStrip(Split(LStrip(line, {"o", "u", "t", "p"}), ","), PortStripChars)

\* elif line.startswith('assign'): the fields [_output] + _input of the line
AssignFields(line) ==
    Split(DropLast(DropLast(Join(Tail1(Split(line, " "))))), "=")

\* the gate branch: g, the instance-name fragment and the port fields
GateType(line) == Split1(line, " ")[1]

GateRest(line) == Split(Join(Tail1(Split1(line, " "))), "(")

GateFields(line) ==
    MapStrip(Split(Join(Tail1(GateRest(line))), ","), GateStripChars)

\* the parser's locals as a record
ParserState(ins, outs, gs, ws, cnt) ==
    [input_nodes |-> ins, output_nodes |-> outs, gates |-> gs, wires |-> ws, n |-> cnt]

\* the assign branch
ParseAssign(P, line) ==
    LET gate    == <<"a", "s", "s", "i", "g", "n">> \o Str(P.n)
        fields  == AssignFields(line)
        _output == fields[1]
        _input  == Tail1(fields)
    IN  ParserState(P.input_nodes, P.output_nodes, Append(P.gates, gate),
                    ResolveInputs(ResolveOutput(P.wires, P.output_nodes, _output, gate),
                                  P.input_nodes, _input, gate),
                    P.n + 1)

\* the gate-instantiation branch
ParseGate(P, line) ==
    LET gate    == GateType(line) \o Str(P.n) \o Strip(GateRest(line)[1], GateStripChars)
        fields  == GateFields(line)
        _output == fields[1]
        _input  == Tail1(fields)
    IN  ParserState(P.input_nodes, P.output_nodes, Append(P.gates, gate),
                    ResolveInputs(ResolveOutput(P.wires, P.output_nodes, _output, gate),
                                  P.input_nodes, _input, gate),
                    P.n + 1)

\* which branch of the if/elif chain takes the (left-trimmed) line
LineKind(line) ==
    IF StartsWith(line, <<"/", "/">>) \/ StartsWith(line, <<"m", "o", "d", "u", "l", "e">>)
    THEN "skip"
    ELSE IF StartsWith(line, <<"i", "n", "p", "u", "t">>) THEN "input"
    ELSE IF StartsWith(line, <<"o", "u", "t", "p", "u", "t">>) THEN "output"
    ELSE IF StartsWith(line, <<"a", "s", "s", "i", "g", "n">>) THEN "assign"
    ELSE IF \E k \in 1..Len(GATES) : Contains(line, GATES[k]) THEN "gate"
    ELSE "ignored"

\* one iteration of the while loop on the line raw
ParserStep(P, raw) ==
    LET line == LStrip(raw, Whitespace)
        kind == LineKind(line)
    IN  CASE kind = "input" ->
               [P EXCEPT !.input_nodes = @ \o ParseInputLine(line)]
          [] kind = "output" ->
               [P EXCEPT !.output_nodes = @ \o ParseOutputLine(line)]
          [] kind = "assign" -> ParseAssign(P, line)
          [] kind = "gate" -> ParseGate(P, line)
          [] OTHER -> P

\* parser(file_) on a whole text
RECURSIVE ParseFrom(_, _)
ParseFrom(P, lines) ==
    IF lines = <<>> THEN P ELSE ParseFrom(ParserStep(P, Head(lines)), Tail(lines))

parser(lines) == ParseFrom(ParserState(<<>>, <<>>, <<>>, <<>>, 0), lines)

(***************************************************************************)
(* grapher.grapher and the networkx.DiGraph it builds.  A graph is its     *)
(* nodes in insertion order and its edges in insertion order, no node and  *)
(* no edge held twice.                                                     *)
(***************************************************************************)
\* G.add_nodes_from(lst): a name already in G is not added again
RECURSIVE AddNodes(_, _)
AddNodes(nodes, lst) ==
    IF lst = <<>> THEN nodes
    ELSE AddNodes(IF InSeq(Head(lst), nodes) THEN nodes ELSE Append(nodes, Head(lst)),
                  Tail(lst))

\* add_edge of a multigraph: the edge is added again when it is already in G
AddEdge_Parallel(G, u, v) ==
    [nodes |-> AddNodes(G.nodes, <<u, v>>), edges |-> Append(G.edges, <<u, v>>)]

\* G.add_edge(u, v): adds u, then v, when missing; an edge already in G stays
\* where it is
AddEdge(G, u, v) ==
    [nodes |-> AddNodes(G.nodes, <<u, v>>),
     edges |-> IF InSeq(<<u, v>>, G.edges) THEN G.edges ELSE Append(G.edges, <<u, v>>)]

\* for j in i[2]: G.add_edge(i[1], j)
RECURSIVE AddWireEdges(_, _, _)
AddWireEdges(G, driver, consumers) ==
    IF consumers = <<>> THEN G
    ELSE AddWireEdges(AddEdge(G, driver, Head(consumers)), driver, Tail(consumers))

\* for i in edges: ...
RECURSIVE AddAllEdges(_, _)
AddAllEdges(G, edges) ==
    IF edges = <<>> THEN G
    ELSE AddAllEdges(AddWireEdges(G, Head(edges)[2], Head(edges)[3]), Tail(edges))

\* grapher without its G.add_nodes_from(out_n)
grapher_NoOutputNodes(in_n, out_n, nodes, edges) ==
    AddAllEdges([nodes |-> AddNodes(AddNodes(<<>>, in_n), nodes), edges |-> <<>>], edges)

grapher(in_n, out_n, nodes, edges) ==
    AddAllEdges([nodes |-> AddNodes(AddNodes(AddNodes(<<>>, in_n), out_n), nodes),
                 edges |-> <<>>],
                edges)

\* position of node u in G, from 0
NodeIndex(G, u) == (CHOOSE k \in 1..Len(G.nodes) : G.nodes[k] = u) - 1

\* DG.edges: the out-edges of each node, node after node
RECURSIVE EdgesFrom(_, _)
EdgesFrom(G, k) ==
    IF k > Len(G.nodes) THEN <<>>
    ELSE SelectSeq(G.edges, LAMBDA e : e[1] = G.nodes[k]) \o EdgesFrom(G, k + 1)

EdgeView(G) == EdgesFrom(G, 1)

(***************************************************************************)
(* Sparse matrices in coordinate form: the dimension and the row and       *)
(* column of every stored entry (all stored entries are 1).                *)
(***************************************************************************)
\* coo_array((0, 0))
EmptyCoo == [shape |-> 0, row |-> <<>>, col |-> <<>>]

\* nx.to_scipy_sparse_array(DG, format='coo') of a graph with a node: one entry
\* per edge, in the order of DG.edges
ToCoo(G) ==
    LET es == EdgeView(G)
    IN  [shape |-> Len(G.nodes),
         row   |-> [k \in 1..Len(es) |-> NodeIndex(G, es[k][1])],
         col   |-> [k \in 1..Len(es) |-> NodeIndex(G, es[k][2])]]

\* block_diag((B,)): the matrix so far is left out
BlockDiag_OnlyLast(A, B) == B

\* block_diag that does not shift the rows and columns of B
BlockDiag_NoOffset(A, B) ==
    [shape |-> A.shape + B.shape, row |-> A.row \o B.row, col |-> A.col \o B.col]

\* block_diag((A, B)): B below and to the right of A
BlockDiag(A, B) ==
    [shape |-> A.shape + B.shape,
     row   |-> A.row \o [k \in 1..Len(B.row) |-> B.row[k] + A.shape],
     col   |-> A.col \o [k \in 1..Len(B.col) |-> B.col[k] + A.shape]]

\* shape[0] taken where count_nonzero() is meant
CountNonzero_Shape(A) == A.shape

\* block_diag_adj_mat.count_nonzero()
CountNonzero(A) == Len(A.row)

(***************************************************************************)
(* CombcircDataset: the label vocabularies of __init__ and the tag of a    *)
(* node name.                                                              *)
(***************************************************************************)
n_lbl_types ==
    << <<"x">>, <<"f">>, <<"a", "n", "d">>, <<" ">>, <<"a", "s", "s", "i", "g", "n">>,
       <<"x", "n", "o", "r">>, <<"b", "u", "f">>, <<"o", "r">>, <<"x", "o", "r">>,
       <<"n", "o", "t">>, <<"n", "a", "n", "d">>, <<"n", "o", "r">> >>

\* lbl in self.n_lbl_to_id
NodeLabelKnown(lbl) == InSeq(lbl, n_lbl_types)

\* ids counted from 1
n_lbl_to_id_OneBased(lbl) == CHOOSE k \in 1..Len(n_lbl_types) : n_lbl_types[k] = lbl

\* self.n_lbl_to_id[lbl]
n_lbl_to_id(lbl) == (CHOOSE k \in 1..Len(n_lbl_types) : n_lbl_types[k] = lbl) - 1

\* list(itertools.product(n_lbl_types, n_lbl_types)): the second tag runs fastest
e_lbl_types ==
    [k \in 1..(Len(n_lbl_types) * Len(n_lbl_types)) |->
        <<n_lbl_types[((k - 1) \div Len(n_lbl_types)) + 1],
          n_lbl_types[((k - 1) % Len(n_lbl_types)) + 1]>>]

\* lbl in self.e_lbl_to_id
EdgeLabelKnown(lbl) == NodeLabelKnown(lbl[1]) /\ NodeLabelKnown(lbl[2])

\* self.e_lbl_to_id[lbl]
e_lbl_to_id(lbl) == (CHOOSE k \in 1..Len(e_lbl_types) : e_lbl_types[k] = lbl) - 1

\* re.sub(r'^(.+?)\d+$', r'\1', name): the shortest non-empty newline-free
\* prefix followed by digits only up to the end (or up to a final newline) is
\* kept, the digits are dropped; a name that does not match is unchanged
Tag(name) ==
    LET L  == Len(name)
        e  == IF L >= 1 /\ name[L] = "\n" THEN L - 1 ELSE L
        gs == {g \in 1..(e - 1) :
                  /\ \A k \in 1..g : name[k] # "\n"
                  /\ \A k \in (g + 1)..e : name[k] \in Digits}
    IN  IF gs = {} THEN name
        ELSE Slice(name, 1, CHOOSE g \in gs : \A h \in gs : g <= h) \o Slice(name, e + 1, L)

\* node_labels = [re.sub(...) for n in DG.nodes]
NodeLabels(G) == [k \in 1..Len(G.nodes) |-> Tag(G.nodes[k])]

\* edge labels taken in the order the edges were added, not in that of DG.edges
EdgeLabels_InsertionOrder(G) ==
    [k \in 1..Len(G.edges) |-> <<Tag(G.edges[k][1]), Tag(G.edges[k][2])>>]

\* edge_labels = [(re.sub(..., e[0]), re.sub(..., e[1])) for e in DG.edges]
EdgeLabels(G) ==
    LET es == EdgeView(G)
    IN  [k \in 1..Len(es) |-> <<Tag(es[k][1]), Tag(es[k][2])>>]

(***************************************************************************)
(* The run of main() on a verilog dataset.                                 *)
(***************************************************************************)
VARIABLES
    pc,                  \* where the run is: "loop", "parse", "write_...", "done", "error"
    err,                 \* the exception that ended the run, "" while there is none
    num_graphs,          \* self.num_graphs: the number of *.v files
    i,                   \* the loop index of read_graphs
    reliability,         \* the value _get_reliability returned for circuit i
    text,                \* the lines readline() has returned for the open file
    nread,               \* lines read over the whole run
    input_nodes, output_nodes, gates, wires, n,      \* the parser's locals
    DG,                  \* the graph grapher built last
    block_diag_adj_mat, graph_indicator, graph_labels, node_ids, edge_ids,
    num_edges, num_nodes,                            \* -1 until read_graphs sets them
    files,               \* the output files created so far: name -> lines written
    global_nodes,        \* the node names behind the rows of block_diag_adj_mat
    sizes                \* adj_mat.shape[0] of every circuit merged so far

vars ==
    <<pc, err, num_graphs, i, reliability, text, nread,
      input_nodes, output_nodes, gates, wires, n, DG,
      block_diag_adj_mat, graph_indicator, graph_labels, node_ids, edge_ids,
      num_edges, num_nodes, files, global_nodes, sizes>>

parserVars == <<input_nodes, output_nodes, gates, wires, n>>

datasetVars ==
    <<block_diag_adj_mat, graph_indicator, graph_labels, node_ids, edge_ids,
      global_nodes, sizes>>

\* the parser's locals, as the record the parser operators work on
P == ParserState(input_nodes, output_nodes, gates, wires, n)

\* CombcircDataset.__init__ and the glob count that opens read_graphs
Init ==
    /\ pc = "loop"
    /\ err = ""
    /\ num_graphs \in 0..MaxGraphs
    /\ i = 0
    /\ reliability = 0
    /\ text = <<>>
    /\ nread = 0
    /\ input_nodes = <<>> /\ output_nodes = <<>> /\ gates = <<>> /\ wires = <<>> /\ n = 0
    /\ DG = [nodes |-> <<>>, edges |-> <<>>]
    /\ block_diag_adj_mat = EmptyCoo
    /\ graph_indicator = <<>>
    /\ graph_labels = <<>>
    /\ node_ids = <<>>
    /\ edge_ids = <<>>
    /\ num_edges = -1 /\ num_nodes = -1
    /\ files = <<>>
    /\ global_nodes = <<>>
    /\ sizes = <<>>

\* read_graphs, circuit i: the sidecar .json has no usable 'reliability'
\* (file missing, not JSON, key missing): _get_reliability raises
MetadataFails ==
    /\ pc = "loop" /\ i < num_graphs
    /\ pc' = "error"
    /\ err' = "MetadataError"
    /\ UNCHANGED <<num_graphs, i, reliability, text, nread, parserVars, DG, datasetVars,
                   num_edges, num_nodes, files>>

\* read_graphs, circuit i: _get_reliability returns r and parser() opens the file
OpenCircuit(r) ==
    /\ pc = "loop" /\ i < num_graphs
    /\ reliability' = r
    /\ text' = <<>>
    /\ input_nodes' = <<>> /\ output_nodes' = <<>> /\ gates' = <<>> /\ wires' = <<>>
    /\ n' = 0
    /\ pc' = "parse"
    /\ UNCHANGED <<err, num_graphs, i, nread, DG, datasetVars, num_edges, num_nodes, files>>

\* parser: readline() returns line and the loop body handles it
ReadLine(line) ==
    /\ pc = "parse" /\ nread < MaxLines
    /\ LET Q == ParserStep(P, line)
       IN  /\ input_nodes' = Q.input_nodes
           /\ output_nodes' = Q.output_nodes
           /\ gates' = Q.gates
           /\ wires' = Q.wires
           /\ n' = Q.n
    /\ text' = Append(text, line)
    /\ nread' = nread + 1
    /\ UNCHANGED <<pc, err, num_graphs, i, reliability, DG, datasetVars,
                   num_edges, num_nodes, files>>

\* parser: readline() returns '' and parser returns; the rest of the loop body
\* of read_graphs runs: grapher, the adjacency matrix (networkx refuses a graph
\* with no node), block_diag, graph_indicator, graph_labels, then the node and
\* the edge label lookups, each of which raises KeyError on an unknown tag
\* before anything is appended to its list
BuildGraph ==
    /\ pc = "parse"
    /\ LET G == grapher(input_nodes, output_nodes, gates, wires)
       IN  /\ DG' = G
           /\ IF G.nodes = <<>>
              THEN /\ pc' = "error" /\ err' = "NetworkXError"
                   /\ UNCHANGED <<i, datasetVars>>
              ELSE LET adj_mat     == ToCoo(G)
                       node_labels == NodeLabels(G)
                       edge_labels == EdgeLabels(G)
                       nodes_ok    == \A k \in 1..Len(node_labels) : NodeLabelKnown(node_labels[k])
                       edges_ok    == \A k \in 1..Len(edge_labels) : EdgeLabelKnown(edge_labels[k])
                   IN  /\ block_diag_adj_mat' = BlockDiag(block_diag_adj_mat, adj_mat)
                       /\ graph_indicator' = graph_indicator \o [k \in 1..adj_mat.shape |-> i]
                       /\ graph_labels' = Append(graph_labels, reliability)
                       /\ global_nodes' = global_nodes \o G.nodes
                       /\ sizes' = Append(sizes, adj_mat.shape)
                       /\ node_ids' = IF nodes_ok
                                      THEN node_ids \o [k \in 1..Len(node_labels) |->
                                                           n_lbl_to_id(node_labels[k])]
                                      ELSE node_ids
                       /\ edge_ids' = IF nodes_ok /\ edges_ok
                                      THEN edge_ids \o [k \in 1..Len(edge_labels) |->
                                                           e_lbl_to_id(edge_labels[k])]
                                      ELSE edge_ids
                       /\ IF nodes_ok /\ edges_ok
                          THEN pc' = "loop" /\ err' = err /\ i' = i + 1
                          ELSE pc' = "error" /\ err' = "KeyError" /\ i' = i
    /\ UNCHANGED <<num_graphs, reliability, text, nread, parserVars,
                   num_edges, num_nodes, files>>

\* read_graphs after the loop: num_edges and num_nodes; main goes on to
\* write_dataset
EndRead ==
    /\ pc = "loop" /\ i = num_graphs
    /\ num_edges' = CountNonzero(block_diag_adj_mat)
    /\ num_nodes' = block_diag_adj_mat.shape
    /\ pc' = "write_A"
    /\ UNCHANGED <<err, num_graphs, i, reliability, text, nread, parserVars, DG,
                   datasetVars, files>>

\* one 'with open(name, "w")' block of write_dataset: the file is created, its
\* lines are written, and then the count is asserted
WriteFile(here, name, content, expected, next) ==
    /\ pc = here
    /\ files' = (name :> content) @@ files
    /\ IF Len(content) = expected
       THEN pc' = next /\ err' = err
       ELSE pc' = "error" /\ err' = "AssertionError"
    /\ UNCHANGED <<num_graphs, i, reliability, text, nread, parserVars, DG,
                   datasetVars, num_edges, num_nodes>>

\* <prefix>_A.txt (the output directory is made first when missing)
WriteA ==
    WriteFile("write_A", "_A.txt",
              [k \in 1..Len(block_diag_adj_mat.row) |->
                  <<block_diag_adj_mat.row[k] + 1, block_diag_adj_mat.col[k] + 1>>],
              num_edges, "write_graph_indicator")

\* <prefix>_graph_indicator.txt
WriteGraphIndicator ==
    WriteFile("write_graph_indicator", "_graph_indicator.txt",
              [k \in 1..Len(graph_indicator) |-> graph_indicator[k] + 1],
              num_nodes, "write_graph_attributes")

\* <prefix>_graph_attributes.txt
WriteGraphAttributes ==
    WriteFile("write_graph_attributes", "_graph_attributes.txt",
              graph_labels, num_graphs, "write_node_labels")

\* <prefix>_node_labels.txt
WriteNodeLabels ==
    WriteFile("write_node_labels", "_node_labels.txt",
              node_ids, num_nodes, "write_edge_labels")

\* <prefix>_edge_labels.txt
WriteEdgeLabels ==
    WriteFile("write_edge_labels", "_edge_labels.txt",
              edge_ids, num_edges, "write_mappings")

\* <prefix>_node_labels_mapping.txt and <prefix>_edge_labels_mapping.txt: one
\* line per vocabulary entry, in the order of the dict; no count is asserted
WriteMappings ==
    /\ pc = "write_mappings"
    /\ files' = ("_node_labels_mapping.txt" :>
                    [k \in 1..Len(n_lbl_types) |-> <<k - 1, n_lbl_types[k]>>])
                @@ ("_edge_labels_mapping.txt" :>
                    [k \in 1..Len(e_lbl_types) |-> <<k - 1, e_lbl_types[k]>>])
                @@ files
    /\ pc' = "done"
    /\ UNCHANGED <<err, num_graphs, i, reliability, text, nread, parserVars, DG,
                   datasetVars, num_edges, num_nodes>>

Next ==
    \/ MetadataFails
    \/ \E r \in Reliabilities : OpenCircuit(r)
    \/ \E line \in Lines : ReadLine(line)
    \/ BuildGraph
    \/ EndRead
    \/ WriteA
    \/ WriteGraphIndicator
    \/ WriteGraphAttributes
    \/ WriteNodeLabels
    \/ WriteEdgeLabels
    \/ WriteMappings

Spec == Init /\ [][Next]_vars

(***************************************************************************)
(* Reading the state.                                                      *)
(***************************************************************************)
\* DG is the graph of the circuit whose lines are in text
GraphBuilt == pc # "parse" /\ (i > 0 \/ err \in {"NetworkXError", "KeyError"})

\* the run ended in an exception
Failed == pc = "error"

TypeOK ==
    /\ pc \in {"loop", "parse", "write_A", "write_graph_indicator",
               "write_graph_attributes", "write_node_labels", "write_edge_labels",
               "write_mappings", "done", "error"}
    /\ err \in {"", "MetadataError", "NetworkXError", "KeyError", "AssertionError"}
    /\ (pc = "error") = (err # "")
    /\ i \in 0..num_graphs
    /\ nread \in 0..MaxLines
    /\ n = Len(gates)
    /\ GraphBuilt => DG = grapher(input_nodes, output_nodes, gates, wires)
    /\ P = parser(text)

(***************************************************************************)
(* What a text declares and states, read off its lines.                    *)
(***************************************************************************)
\* the lines of a text the parser takes as assign or gate statements
Statements(lines) ==
    SelectSeq(lines, LAMBDA l : LineKind(LStrip(l, Whitespace)) \in {"assign", "gate"})

\* the net a statement drives
StatementOutput(l) ==
    LET line == LStrip(l, Whitespace)
    IN  IF LineKind(line) = "assign" THEN AssignFields(line)[1] ELSE GateFields(line)[1]

\* the nets a statement reads
StatementInputs(l) ==
    LET line == LStrip(l, Whitespace)
    IN  IF LineKind(line) = "assign" THEN Tail1(AssignFields(line))
        ELSE Tail1(GateFields(line))

\* the names a declaration line lists after its keyword: every comma-separated
\* field that is not blank
ListedNames(l, keyword) ==
    LET line   == LStrip(l, Whitespace)
        fields == MapStrip(Split(Slice(line, Len(keyword) + 1, Len(line)), ","),
                           PortStripChars)
    IN  ToSet(fields) \ {<<>>}

\* the distinct input (output) names a text declares
DeclaredInputs(lines) ==
    UNION {ListedNames(lines[k], <<"i", "n", "p", "u", "t">>) :
              k \in {j \in 1..Len(lines) : LineKind(LStrip(lines[j], Whitespace)) = "input"}}

DeclaredOutputs(lines) ==
    UNION {ListedNames(lines[k], <<"o", "u", "t", "p", "u", "t">>) :
              k \in {j \in 1..Len(lines) : LineKind(LStrip(lines[j], Whitespace)) = "output"}}

\* the circuit of text went through the whole loop body of read_graphs
CircuitMerged == pc = "loop" /\ i > 0

\* the number of positions of graph_indicator that hold c
IndicatorCount(c) == Cardinality({k \in 1..Len(graph_indicator) : graph_indicator[k] = c})

\* some net record still has the sentinel as its driver
SentinelDrives == \E k \in 1..Len(wires) : wires[k][2] = SENTINEL

(***************************************************************************)
(* C1.  As claimed: the graph of a circuit has exactly N + M + G nodes for  *)
(* N distinct declared input names, M distinct declared output names and   *)
(* G recognised statements, and the circuit contributes that many entries  *)
(* to graph_indicator and node_ids, also when a gate reads an undriven     *)
(* net.  The code does otherwise.                                          *)
(***************************************************************************)
C1_NodeCountAsClaimed ==
    LET NMG == Cardinality(DeclaredInputs(text)) + Cardinality(DeclaredOutputs(text))
                   + Len(Statements(text))
    IN  /\ GraphBuilt => Len(DG.nodes) = NMG
        /\ CircuitMerged => /\ IndicatorCount(i - 1) = NMG
                            /\ sizes[i] = NMG

\* C1, amended: the graph built for a circuit has one node per distinct name
\* among the inputs, outputs and gate ids the parser returned, and one more
\* node, the sentinel ' ', exactly when some net record keeps the sentinel as
\* driver; a circuit that is merged without error contributes that many entries
\* to graph_indicator and to node_ids.
C1_NodeCount ==
    LET names == ToSet(input_nodes) \cup ToSet(output_nodes) \cup ToSet(gates)
        count == Cardinality(names) + (IF SentinelDrives THEN 1 ELSE 0)
    IN  /\ GraphBuilt =>
              /\ Len(DG.nodes) = count
              /\ ToSet(DG.nodes) = names \cup (IF SentinelDrives THEN {SENTINEL} ELSE {})
        /\ CircuitMerged =>
              /\ IndicatorCount(i - 1) = count
              /\ sizes[i] = count
              /\ Len(node_ids) = Len(graph_indicator)

\* a merged circuit with parsed inputs, an output, a gate and an undriven net
C1_Witness ==
    /\ CircuitMerged
    /\ input_nodes # <<>> /\ output_nodes # <<>> /\ gates # <<>>
    /\ SentinelDrives
    /\ Len(DG.nodes) = Len(input_nodes) + Len(output_nodes) + Len(gates) + 1

(***************************************************************************)
(* C2.  Last writer wins, as claimed: when two statements drive the same   *)
(* net w, declared output port or not, every net record of w that has      *)
(* consumers has the gate id of the last of them as driver, so no edge of  *)
(* w starts at the earlier gate.  The code does otherwise for output ports.*)
(***************************************************************************)
C2_LastWriterWins ==
    GraphBuilt =>
        LET stmts == Statements(text)
        IN  \A p, q \in 1..Len(stmts) :
                (/\ p < q
                 /\ StatementOutput(stmts[p]) = StatementOutput(stmts[q])
                 /\ \A r \in (q + 1)..Len(stmts) :
                        StatementOutput(stmts[r]) # StatementOutput(stmts[q]))
                => \A k \in 1..Len(wires) :
                      (wires[k][1] = StatementOutput(stmts[q]) /\ wires[k][3] # <<>>)
                      => /\ wires[k][2] = gates[q]
                         /\ \A c \in 1..Len(wires[k][3]) :
                               /\ InSeq(<<gates[q], wires[k][3][c]>>, DG.edges)
                               /\ ~InSeq(<<gates[p], wires[k][3][c]>>, DG.edges)

(***************************************************************************)
(* C3.  Reading an undriven net never fails.  A statement that reads a net *)
(* that is no parsed input and has no record appends a record for it with  *)
(* the sentinel ' ' as driver and its gate id as consumer; a later         *)
(* statement that drives that net, when it is no output port, overwrites   *)
(* the driver of that record with its gate id and keeps the consumers in   *)
(* their order; the graph has the edge sentinel -> consumer for every      *)
(* record the sentinel still drives; the indexer maps the sentinel node to *)
(* the id of the tag ' ' and a KeyError is never due to the sentinel.      *)
(***************************************************************************)
\* a is a prefix of b
IsPrefix(a, b) == Len(a) <= Len(b) /\ SubSeq(b, 1, Len(a)) = a

C3_Step ==
    (pc = "parse" /\ pc' = "parse" /\ Len(gates') = Len(gates) + 1)
    => LET l    == text'[Len(text')]
           gate == gates'[Len(gates')]
           out  == StatementOutput(l)
           ins  == StatementInputs(l)
           ko   == FindWire(wires, out)
       IN  /\ \A j \in 1..Len(ins) :
                 (/\ ~InSeq(ins[j], input_nodes)
                  /\ FindWire(wires, ins[j]) = 0
                  /\ ins[j] # out)
                 => LET k == FindWire(wires', ins[j])
                    IN  /\ k > Len(wires)
                        /\ wires'[k][2] = SENTINEL
                        /\ wires'[k][3] # <<>>
                        /\ \A c \in 1..Len(wires'[k][3]) : wires'[k][3][c] = gate
           /\ (/\ ~InSeq(out, output_nodes)
               /\ ko # 0
               /\ wires[ko][2] = SENTINEL)
              => /\ wires'[ko][1] = out
                 /\ wires'[ko][2] = gate
                 /\ IsPrefix(wires[ko][3], wires'[ko][3])
                 /\ \A k \in 1..Len(wires') : wires'[k][1] = out => k = ko

C3_Graph ==
    /\ GraphBuilt =>
          \A k \in 1..Len(wires) :
              wires[k][2] = SENTINEL
              => /\ InSeq(SENTINEL, DG.nodes)
                 /\ \A c \in 1..Len(wires[k][3]) :
                       InSeq(<<SENTINEL, wires[k][3][c]>>, DG.edges)
    /\ \A g \in 1..Len(node_ids) :
          global_nodes[g] = SENTINEL => node_ids[g] = n_lbl_to_id(SENTINEL)
    /\ err = "KeyError" =>
          \E k \in 1..Len(DG.nodes) :
              DG.nodes[k] # SENTINEL /\ ~NodeLabelKnown(Tag(DG.nodes[k]))

C3_UndrivenRead == [][C3_Step]_vars /\ []C3_Graph

\* a merged circuit with no parsed input in which one net was read by two gates
\* before a third statement drove it, and another net is still undriven
C3_Witness ==
    /\ CircuitMerged
    /\ input_nodes = <<>>
    /\ SentinelDrives /\ InSeq(SENTINEL, DG.nodes)
    /\ \E k \in 1..Len(wires) :
          /\ ~InSeq(wires[k][1], output_nodes)
          /\ wires[k][2] = gates[Len(gates)]
          /\ Len(gates) > 2
          /\ wires[k][3] = <<gates[1], gates[2]>>

(***************************************************************************)
(* C4.  As claimed: tags are interned in first-seen order, so the id of a  *)
(* node tag (edge tag pair) is the number of distinct tags (pairs) seen    *)
(* before its first occurrence, and a lookup never fails.  The code does   *)
(* otherwise.                                                              *)
(***************************************************************************)
NodeTagAt(k) == Tag(global_nodes[k])

EdgeTagAt(k) ==
    <<Tag(global_nodes[block_diag_adj_mat.row[k] + 1]),
      Tag(global_nodes[block_diag_adj_mat.col[k] + 1])>>

C4_FirstSeenAsClaimed ==
    /\ err # "KeyError"
    /\ \A k \in 1..Len(node_ids) :
          node_ids[k] = Cardinality({NodeTagAt(j) : j \in
              {h \in 1..k : \A g \in 1..h : NodeTagAt(g) # NodeTagAt(k)}})
    /\ \A k \in 1..Len(edge_ids) :
          edge_ids[k] = Cardinality({EdgeTagAt(j) : j \in
              {h \in 1..k : \A g \in 1..h : EdgeTagAt(g) # EdgeTagAt(k)}})

\* C4, amended: the vocabularies are the fixed ones of __init__.  The id of a
\* node tag is its position, from 0, in n_lbl_types, whatever was seen before;
\* the id of an edge tag pair (a, b) is len(n_lbl_types) * id(a) + id(b); a
\* circuit is merged only when every node tag is in the vocabulary, and a node
\* tag outside it ends the run with KeyError.
C4_FixedVocabulary ==
    /\ \A k \in 1..Len(node_ids) :
          /\ node_ids[k] \in 0..(Len(n_lbl_types) - 1)
          /\ n_lbl_types[node_ids[k] + 1] = NodeTagAt(k)
    /\ \A k \in 1..Len(edge_ids) :
          edge_ids[k] = Len(n_lbl_types) * node_ids[block_diag_adj_mat.row[k] + 1]
                            + node_ids[block_diag_adj_mat.col[k] + 1]
    /\ CircuitMerged => \A k \in 1..Len(DG.nodes) : NodeLabelKnown(Tag(DG.nodes[k]))
    /\ (GraphBuilt /\ \E k \in 1..Len(DG.nodes) : ~NodeLabelKnown(Tag(DG.nodes[k])))
          => err = "KeyError"
    /\ err = "KeyError" => \E k \in 1..Len(DG.nodes) : ~NodeLabelKnown(Tag(DG.nodes[k]))

\* the first node of the run has a tag whose id is not 0, and an edge is labelled
C4_Witness ==
    /\ CircuitMerged
    /\ node_ids[1] # 0
    /\ edge_ids # <<>>

(***************************************************************************)
(* C5.  Whenever read_graphs has merged circuits without error, edge_ids   *)
(* is as long as block_diag_adj_mat has non-zeros, node_ids and            *)
(* graph_indicator are as long as the matrix is wide, and graph_labels has *)
(* one entry per circuit; no assertion of write_dataset fails.             *)
(***************************************************************************)
Writing ==
    pc \in {"write_A", "write_graph_indicator", "write_graph_attributes",
            "write_node_labels", "write_edge_labels", "write_mappings", "done"}

C5_VectorsConsistent ==
    /\ err # "AssertionError"
    /\ pc # "error" =>
          /\ Len(edge_ids) = CountNonzero(block_diag_adj_mat)
          /\ Len(node_ids) = block_diag_adj_mat.shape
          /\ Len(graph_indicator) = block_diag_adj_mat.shape
          /\ Len(graph_labels) = i
    /\ Writing =>
          /\ i = num_graphs
          /\ num_edges = Len(edge_ids)
          /\ num_nodes = Len(node_ids)
          /\ num_nodes = Len(graph_indicator)
          /\ num_graphs = Len(graph_labels)

\* a finished run over two circuits with edges
C5_Witness ==
    /\ pc = "done"
    /\ num_graphs = 2
    /\ edge_ids # <<>>
    /\ "_edge_labels.txt" \in DOMAIN files

(***************************************************************************)
(* C6.  Block-diagonal merge.  graph_indicator is non-decreasing, holds    *)
(* exactly sizes[k] times the k-th circuit, and both ends of every         *)
(* adjacency non-zero belong to one circuit; the file holds the same       *)
(* values plus one, in 1..K.  Two one-node circuits without edges give a   *)
(* 2x2 matrix without entries and the indicator file [1, 2].               *)
(***************************************************************************)
NonDecreasing(seq) == \A k \in 1..(Len(seq) - 1) : seq[k] <= seq[k + 1]

CountOf(seq, v) == Cardinality({k \in 1..Len(seq) : seq[k] = v})

C6_BlockDiagonal ==
    /\ pc # "error" =>
          /\ NonDecreasing(graph_indicator)
          /\ Len(sizes) = i
          /\ \A k \in 1..Len(graph_indicator) : graph_indicator[k] \in 0..(i - 1)
          /\ \A c \in 1..i : CountOf(graph_indicator, c - 1) = sizes[c]
          /\ \A k \in 1..Len(block_diag_adj_mat.row) :
                /\ block_diag_adj_mat.row[k] \in 0..(block_diag_adj_mat.shape - 1)
                /\ block_diag_adj_mat.col[k] \in 0..(block_diag_adj_mat.shape - 1)
                /\ graph_indicator[block_diag_adj_mat.row[k] + 1]
                      = graph_indicator[block_diag_adj_mat.col[k] + 1]
    /\ "_graph_indicator.txt" \in DOMAIN files =>
          LET ind == files["_graph_indicator.txt"]
              A   == files["_A.txt"]
          IN  /\ NonDecreasing(ind)
              /\ Len(ind) = block_diag_adj_mat.shape
              /\ \A k \in 1..Len(ind) : ind[k] \in 1..num_graphs
              /\ \A c \in 1..num_graphs : CountOf(ind, c) = sizes[c]
              /\ \A k \in 1..Len(A) : ind[A[k][1]] = ind[A[k][2]]
              /\ (sizes = <<1, 1>> /\ edge_ids = <<>>) =>
                    /\ block_diag_adj_mat = [shape |-> 2, row |-> <<>>, col |-> <<>>]
                    /\ A = <<>>
                    /\ ind = <<1, 2>>

\* two one-node circuits without edges, written out
C6_Witness ==
    /\ "_graph_indicator.txt" \in DOMAIN files
    /\ files["_graph_indicator.txt"] = <<1, 2>>
    /\ files["_A.txt"] = <<>>
    /\ sizes = <<1, 1>>
    /\ block_diag_adj_mat.shape = 2

C8_NoPartialOutput == Failed => DOMAIN files = {}

\* the second circuit fails after the first was merged
C8_Witness == Failed /\ i = 1 /\ block_diag_adj_mat.shape > 0 /\ DOMAIN files = {}

(***************************************************************************)
(* C9.  As claimed: a line taken as an assign that has no '=', or taken as *)
(* a gate instantiation that has no parenthesis, makes the parser raise:   *)
(* the run has failed, no graph was built from the text, and gates and     *)
(* wires are what the lines before it made them.  The code does otherwise. *)
(***************************************************************************)
Malformed(l) ==
    LET line == LStrip(l, Whitespace)
    IN  \/ LineKind(line) = "assign" /\ ~InSeq("=", line)
        \/ LineKind(line) = "gate" /\ ~InSeq("(", line) /\ ~InSeq(")", line)

C9_MalformedIsFatal ==
    \A k \in 1..Len(text) :
        Malformed(text[k])
        => /\ Failed
           /\ ~GraphBuilt
           /\ gates = parser(SubSeq(text, 1, k - 1)).gates
           /\ wires = parser(SubSeq(text, 1, k - 1)).wires

(***************************************************************************)
(* C10.  As claimed: 'input a;' / 'output f;' / 'not g0(f, a);' gives the   *)
(* 3 nodes a, f and the gate, the 2 edges a -> gate and gate -> f, and the *)
(* tags a, f and not.  The code does otherwise.                            *)
(***************************************************************************)
C10_Example ==
    (text = <<L_input_a, L_output_f, L_not_g0>> /\ GraphBuilt)
    => /\ Len(gates) = 1
       /\ Len(DG.nodes) = 3
       /\ ToSet(DG.nodes) = {<<"a">>, <<"f">>, gates[1]}
       /\ Len(DG.edges) = 2
       /\ ToSet(DG.edges) = {<< <<"a">>, gates[1] >>, << gates[1], <<"f">> >>}
       /\ Tag(<<"a">>) = <<"a">>
       /\ Tag(<<"f">>) = <<"f">>
       /\ Tag(gates[1]) = <<"n", "o", "t">>

(***************************************************************************)
(* C11.  Net-table uniqueness, as claimed: after every prefix of the lines *)
(* of a circuit the net table holds at most one record per net name, a     *)
(* declared output port included, so a net keeps at most one driver.  The  *)
(* code does otherwise for output ports: each statement that drives one    *)
(* appends a record.                                                       *)
(***************************************************************************)
C11_OneRecordPerNet ==
    \A k, l \in 1..Len(wires) : wires[k][1] = wires[l][1] => k = l

(***************************************************************************)
(* C12.  Input declarations are complete, as claimed: the names the input  *)
(* lines of a circuit list, with or without a trailing ';', are all in     *)
(* inputs, in declaration order, and an operand that is declared before    *)
(* every statement that reads it, and that no statement drives, has a net  *)
(* record whose driver is the name itself.  The code drops the last        *)
(* comma-separated field of every input line.                              *)
(***************************************************************************)
\* the names an input line lists, in order
ListedInputs(l) ==
    LET line   == LStrip(l, Whitespace)
        fields == MapStrip(Split(Slice(line, Len(<<"i", "n", "p", "u", "t">>) + 1,
                                       Len(line)), ","),
                           PortStripChars)
    IN  SelectSeq(fields, LAMBDA x : x # <<>>)

\* the names the input lines of a text list, in declaration order
RECURSIVE DeclaredInputSeq(_)
DeclaredInputSeq(lines) ==
    IF lines = <<>> THEN <<>>
    ELSE (IF LineKind(LStrip(Head(lines), Whitespace)) = "input"
          THEN ListedInputs(Head(lines)) ELSE <<>>)
         \o DeclaredInputSeq(Tail(lines))

\* the positions of text that hold a statement reading the net o
Readers(o) ==
    {q \in 1..Len(text) :
        /\ LineKind(LStrip(text[q], Whitespace)) \in {"assign", "gate"}
        /\ InSeq(o, StatementInputs(text[q]))}

C12_InputsComplete ==
    /\ input_nodes = DeclaredInputSeq(text)
    /\ \A o \in DeclaredInputs(text) :
          (/\ Readers(o) # {}
           /\ \A q \in Readers(o) : o \in DeclaredInputs(SubSeq(text, 1, q - 1))
           /\ \A q \in 1..Len(Statements(text)) :
                  StatementOutput(Statements(text)[q]) # o)
          => /\ \E k \in 1..Len(wires) : wires[k][1] = o
             /\ \A k \in 1..Len(wires) : wires[k][1] = o => wires[k][2] = o

(***************************************************************************)
(* C13.  Gate identifiers are never reused within a circuit, as claimed:   *)
(* reading a line raises the counter n by exactly 1 when the line is an    *)
(* assign or instantiation statement and leaves it alone otherwise, the    *)
(* ids in gates are pairwise distinct, and len(gates) equals the counter.  *)
(* The counter and the length are as claimed; the ids are not always       *)
(* distinct, since type + counter + name fragment are joined with nothing  *)
(* between them.                                                           *)
(***************************************************************************)
\* a step that reads one more line of the circuit moves the counter as claimed
C13_Step ==
    (Len(text') = Len(text) + 1)
    => n' = n + (IF LineKind(LStrip(text'[Len(text')], Whitespace)) \in {"assign", "gate"}
                 THEN 1 ELSE 0)

C13_Distinct ==
    /\ Len(gates) = n
    /\ \A p, q \in 1..Len(gates) : gates[p] = gates[q] => p = q

C13_IdsNeverReused == [][C13_Step]_vars /\ []C13_Distinct

(***************************************************************************)
(* C14.  Multi-edge policy: the edges of the graph built for a circuit are *)
(* exactly the distinct (driver, consumer) pairs over all net records,     *)
(* each held once however often the pair occurs in one consumer list or    *)
(* across records, a pair with driver = consumer being one self-loop; and  *)
(* a circuit that is merged without error contributes exactly one          *)
(* adjacency entry and exactly one edge label per such pair.               *)
(***************************************************************************)
\* the (driver, consumer) pairs over all net records
WirePairs ==
    UNION {{<<wires[k][2], wires[k][3][c]>> : c \in 1..Len(wires[k][3])} :
              k \in 1..Len(wires)}

\* the id of the label of the edge e
EdgeId(e) == e_lbl_to_id(<<Tag(e[1]), Tag(e[2])>>)

C14_MultiEdgePolicy ==
    LET K == Cardinality(WirePairs)
    IN  /\ GraphBuilt =>
              /\ ToSet(DG.edges) = WirePairs
              /\ Len(DG.edges) = K
              /\ ToSet(EdgeView(DG)) = WirePairs
              /\ Len(EdgeView(DG)) = K
        /\ CircuitMerged =>
              LET A      == block_diag_adj_mat
                  off    == A.shape - sizes[i]
                  mine   == {k \in 1..Len(A.row) : A.row[k] >= off}
                  labels == SubSeq(edge_ids, Len(edge_ids) - K + 1, Len(edge_ids))
              IN  /\ Cardinality(mine) = K
                  /\ \A e \in WirePairs :
                        Cardinality({k \in mine :
                                        /\ A.row[k] = off + NodeIndex(DG, e[1])
                                        /\ A.col[k] = off + NodeIndex(DG, e[2])}) = 1
                  /\ Len(edge_ids) = CountNonzero(A)
                  /\ Len(labels) = K
                  /\ \A v \in ToSet(labels) \cup {EdgeId(e) : e \in WirePairs} :
                        Cardinality({k \in 1..K : labels[k] = v})
                            = Cardinality({e \in WirePairs : EdgeId(e) = v})

\* a merged circuit with a net record whose consumer list holds its own driver,
\* twice, so that the records list more consumers than the graph has edges
C14_Witness ==
    /\ CircuitMerged
    /\ \E k \in 1..Len(wires) :
          \E c, d \in 1..Len(wires[k][3]) :
              /\ c # d
              /\ wires[k][3][c] = wires[k][3][d]
              /\ wires[k][3][c] = wires[k][2]
              /\ Cardinality({e \in 1..Len(DG.edges) :
                                 DG.edges[e] = <<wires[k][2], wires[k][2]>>}) = 1
    /\ Len(DG.edges) > 1
====
